---- MODULE Spec2Model ----
(***************************************************************************)
(* vtkThreadedCallbackQueue: a pool of worker threads popping invokers     *)
(* from a deque, futures with prior/dependent links, Wait stealing a       *)
(* queued invoker by index, and resizing of the pool.                      *)
(*                                                                         *)
(* Every thread is a stack of frames; a frame is one C++ call in progress  *)
(* and its pc names the next lock acquisition or shared access.  A step of *)
(* the model runs from one such point to the next.                         *)
(***************************************************************************)
EXTENDS Integers, Sequences, FiniteSets, TLC

\* ---------------------------------------------------------------- bounds
MaxTasks == 3
MaxThreads == 2
MaxPriors == 2
MaxWaits == 1
MaxResizes == 2

\* ------------------------------------------------------------- constants
Tasks == 1..(MaxTasks + 1)
ThreadIds == 1..MaxThreads
Null == 0
Free == Null
Main == MaxThreads + 1
AllThreads == ThreadIds \cup {Main}
Statuses == {"NONE", "CONSTRUCTING", "ON_HOLD", "ENQUEUED", "RUNNING", "DONE"}

VARIABLES
  status,            \* Status of each shared state
  remaining,         \* NumberOfPriorSharedFuturesRemaining
  dependents,        \* DependentSharedFutures
  invokerIndex,      \* InvokerIndex
  isHighPriority,    \* IsHighPriority
  InvokerQueue,      \* deque of invokers, Null is a moved-from slot
  InvokersOnHold,    \* keys of the on-hold map
  Mutex,             \* holder of the queue mutex
  stateMutex,        \* holder of each shared state's mutex
  sleeping,          \* workers blocked in ConditionVariable.wait
  stack,             \* call stack of each thread
  numTasks,          \* number of tasks the main thread submits
  priors,            \* prior futures each task is submitted with
  waitsOn,           \* future the payload of a task waits on (Null: none)
  waitsLeft,         \* Wait calls the main thread may still make
  resizesLeft,       \* SetNumberOfThreads calls that may still be made
  throws,            \* tasks whose payload fails
  NumberOfThreads,   \* NumberOfThreads
  Threads,           \* Threads: the thread handles, by slot
  threadIndex,       \* *ThreadIndex of each worker
  ThreadIdToIndex,   \* keys of ThreadIdToIndex
  Destroying,        \* Destroying
  DestroyMutex,      \* holder of DestroyMutex
  crashed,           \* the process took an undefined-behaviour exit
  started,           \* history: times a payload was started
  zeroHits,          \* history: times remaining reached 0 by a decrement
  removals,          \* history: times the invoker left the on-hold map
  pastDue,           \* history: tasks whose count reached 0 while ON_HOLD
  owes,              \* history: <<d, e, q>>: d was past due and unclaimed when e was pushed, q: d was in the queue
  waitReturns        \* history: <<f, status of f>> at each return of Wait(f)

queueVars == <<status, remaining, dependents, invokerIndex, isHighPriority, InvokerQueue, InvokersOnHold, Mutex, stateMutex, sleeping>>
planVars == <<numTasks, priors, waitsOn, waitsLeft, resizesLeft, throws>>
poolVars == <<NumberOfThreads, Threads, threadIndex, ThreadIdToIndex, Destroying, DestroyMutex>>
histVars == <<started, zeroHits, removals, pastDue, owes, waitReturns>>
vars == <<queueVars, planVars, poolVars, histVars, stack, crashed>>

\* ---------------------------------------------------------------- frames
Frame(pc, t) == [pc |-> pc, t |-> t, i |-> 0, launch |-> <<>>, index |-> 0]
Top(th) == stack[th][Len(stack[th])]
AtPc(th, pc) == ~crashed /\ stack[th] # <<>> /\ Top(th).pc = pc
SetTop(th, f) == [stack EXCEPT ![th] = [@ EXCEPT ![Len(@)] = f]]
Call(th, f, callee) == [stack EXCEPT ![th] = Append([@ EXCEPT ![Len(@)] = f], callee)]
Return(th) == [stack EXCEPT ![th] = SubSeq(@, 1, Len(@) - 1)]

\* ------------------------------------------------------ pure helpers
\* PopFrontNullptr, lines 204-210: moved-from slots at the front are dropped.
RECURSIVE PopFrontNullptr(_)
PopFrontNullptr_keep(q) == q
PopFrontNullptr(q) ==
  IF q # <<>> /\ Head(q) = Null THEN PopFrontNullptr(Tail(q)) ELSE q

\* ThreadWorker::OnHold, lines 89-93.
OnHold(w) ==
  threadIndex[w] < NumberOfThreads /\ ~Destroying /\ InvokerQueue = <<>>

\* ThreadWorker::Continue, lines 99-102.
Continue(w) ==
  threadIndex[w] < NumberOfThreads /\ InvokerQueue # <<>>

\* SignalDependentSharedFutures, line 244.
Decrement_two(rem, d) == [rem EXCEPT ![d] = @ - 2]
Decrement(rem, d) == [rem EXCEPT ![d] = @ - 1]

\* Invoke, line 216: the invoker's own shared state becomes RUNNING.
InvokeStatus_done(st, t) == [st EXCEPT ![t] = "DONE"]
InvokeStatus(st, t) == [st EXCEPT ![t] = "RUNNING"]

\* SignalDependentSharedFutures, line 245, evaluated after the decrement.
ReadyToLaunch_anyCount(st, rem, d) == st[d] = "ON_HOLD"
ReadyToLaunch(st, rem, d) == st[d] = "ON_HOLD" /\ rem[d] = 0

\* SignalDependentSharedFutures, lines 276-278.
ReinsertStart(q, launch) ==
  IF q = <<>> THEN Len(launch) ELSE invokerIndex[Head(q)]

\* TryInvoke, lines 319-320.
Offset(f, q) == invokerIndex[f] - invokerIndex[Head(q)]

\* Push: the index given to an invoker appended at the back.
PushIndex(q) == IF q = <<>> THEN 0 ELSE invokerIndex[Head(q)] + 1

\* ConditionVariable.notify_one called k times: k sleepers are released.
Min(a, b) == IF a < b THEN a ELSE b
NotifyOne_none(k) == {sleeping}
NotifyOne(k) ==
  { sleeping \ S : S \in { X \in SUBSET sleeping : Cardinality(X) = Min(k, Cardinality(sleeping)) } }

\* Nondecreasing lists of earlier tasks, at most MaxPriors long.
RECURSIVE SeqsUpTo(_, _)
SeqsUpTo(S, n) ==
  IF n = 0 THEN { <<>> }
  ELSE LET shorter == SeqsUpTo(S, n - 1)
       IN shorter \cup { Append(q, x) : q \in { r \in shorter : Len(r) = n - 1 }, x \in S }
Nondecreasing(q) == \A a \in 1..Len(q) : \A b \in a..Len(q) : q[a] <= q[b]
PriorChoices(t, len) ==
  { q \in SeqsUpTo(1..(t - 1), len) : Nondecreasing(q) }

\* The programs of n tasks: task t names at most len earlier tasks as priors.
PriorPlans(n, len) ==
  { pl \in [Tasks -> SeqsUpTo(1..n, len)] : \A t \in Tasks : IF t <= n THEN pl[t] \in PriorChoices(t, len) ELSE pl[t] = <<>> }

HasNextTask == \E t \in 1..numTasks : status[t] = "NONE"
NextTask ==
  IF HasNextTask
    THEN CHOOSE t \in 1..numTasks : status[t] = "NONE" /\ \A u \in 1..(t - 1) : status[u] # "NONE"
    ELSE Null

\* ------------------------------------------------------------------ Init
InitQueue ==
  /\ status = [t \in Tasks |-> "NONE"]
  /\ remaining = [t \in Tasks |-> 0]
  /\ dependents = [t \in Tasks |-> <<>>]
  /\ invokerIndex = [t \in Tasks |-> 0]
  /\ isHighPriority = [t \in Tasks |-> FALSE]
  /\ InvokerQueue = <<>>
  /\ InvokersOnHold = {}
  /\ Mutex = Free
  /\ stateMutex = [t \in Tasks |-> Free]
  /\ sleeping = {}
  /\ crashed = FALSE
  /\ started = [t \in Tasks |-> 0]
  /\ zeroHits = [t \in Tasks |-> 0]
  /\ removals = [t \in Tasks |-> 0]
  /\ pastDue = {}
  /\ owes = {}
  /\ waitReturns = {}

\* The pool as SetNumberOfThreads(n) leaves it: n workers, slot i holds the
\* worker of index i, all registered, each about to call Pop.
InitPool(n) ==
  /\ NumberOfThreads = n
  /\ Threads = [i \in 1..n |-> i]
  /\ threadIndex = [w \in ThreadIds |-> w - 1]
  /\ ThreadIdToIndex = 1..n
  /\ Destroying = FALSE
  /\ DestroyMutex = Free
  /\ stack = [th \in AllThreads |->
               IF th = Main THEN << Frame("Main", Null) >>
               ELSE IF th <= n THEN << Frame("Pop", Null) >> ELSE <<>>]

\* The programs of Spec: MaxTasks tasks whose payloads do not wait, run on
\* 1..MaxThreads workers while the main thread submits and waits.
InitPlan ==
  /\ numTasks = MaxTasks
  /\ priors \in PriorPlans(MaxTasks, MaxPriors)
  /\ waitsOn = [t \in Tasks |-> Null]
  /\ waitsLeft = MaxWaits
  /\ resizesLeft = 0
  /\ throws = {}

Init == InitQueue /\ InitPlan /\ \E n \in 1..MaxThreads : InitPool(n)

\* ------------------------------------------------- ThreadWorker::Pop
\* The queue after Pop moved the front invoker out, lines 73-76.
PopFront(q) == PopFrontNullptr(Tail(q))

\* Pop, lines 73-76: the invoker a worker moves out, and the queue it leaves.
PopResult_second(q) ==
  IF Len(q) >= 2 /\ q[2] # Null
    THEN [invoker |-> q[2], queue |-> <<q[1]>> \o SubSeq(q, 3, Len(q))]
    ELSE [invoker |-> Head(q), queue |-> PopFront(q)]
PopResult(q) == [invoker |-> Head(q), queue |-> PopFront(q)]

\* Pop, lines 57-77, entered from the loop or by a notified worker inside
\* ConditionVariable.wait: the queue mutex is taken and OnHold() evaluated.
\* A worker on hold keeps the mutex until it blocks; otherwise Continue()
\* decides between leaving the loop and moving the front invoker out.
WorkerPop(w) ==
  /\ AtPc(w, "Pop") \/ (AtPc(w, "CvBlocked") /\ w \notin sleeping)
  /\ Mutex = Free
  /\ IF OnHold(w)
       THEN /\ Mutex' = w
            /\ stack' = SetTop(w, [Top(w) EXCEPT !.pc = "CvWait"])
            /\ UNCHANGED InvokerQueue
       ELSE IF ~Continue(w)
         THEN /\ stack' = SetTop(w, [Top(w) EXCEPT !.pc = "Exit"])
              /\ UNCHANGED <<Mutex, InvokerQueue>>
         ELSE /\ stack' = SetTop(w, [Top(w) EXCEPT !.pc = "Invoke", !.t = PopResult(InvokerQueue).invoker])
              /\ InvokerQueue' = PopResult(InvokerQueue).queue
              /\ UNCHANGED Mutex
  /\ UNCHANGED <<status, remaining, dependents, invokerIndex, isHighPriority, InvokersOnHold, stateMutex, sleeping>>
  /\ UNCHANGED <<planVars, poolVars, histVars, crashed>>

\* ConditionVariable.wait, line 61: releases the mutex and blocks.
WorkerCvWait(w) ==
  /\ AtPc(w, "CvWait")
  /\ Mutex' = Free
  /\ sleeping' = sleeping \cup {w}
  /\ stack' = SetTop(w, [Top(w) EXCEPT !.pc = "CvBlocked"])
  /\ UNCHANGED <<status, remaining, dependents, invokerIndex, isHighPriority, InvokerQueue, InvokersOnHold, stateMutex>>
  /\ UNCHANGED <<planVars, poolVars, histVars, crashed>>

\* Pop, lines 79-80 and Invoke, lines 216-217: under the state's mutex the
\* status becomes RUNNING; the payload is next.
WorkerInvoke(w) ==
  /\ AtPc(w, "Invoke")
  /\ LET t == Top(w).t
     IN /\ stateMutex[t] = Free
        /\ status' = InvokeStatus(status, t)
        /\ started' = [started EXCEPT ![t] = @ + 1]
        /\ stack' = Call(w, [Top(w) EXCEPT !.pc = "Pop", !.t = Null], Frame("Payload", t))
  /\ UNCHANGED <<remaining, dependents, invokerIndex, isHighPriority, InvokerQueue, InvokersOnHold, Mutex, stateMutex, sleeping>>
  /\ UNCHANGED <<planVars, poolVars, zeroHits, removals, pastDue, owes, waitReturns, crashed>>

\* --------------------------------------------- Invoke, lines 218-219
\* How the call of the invoker ends, by whether its payload fails: the
\* invoker catches the failure and returns like any other.
InvokerOutcome(fails) == "returned"

\* What follows line 218: a return is followed by the signaling of line 219;
\* Invoke, Pop and ThreadWorker::operator() have no handler, so an exception
\* leaving the invoker would leave the thread function and end the process.
AfterInvoker_terminate(outcome) == "terminate"
AfterInvoker(outcome) == IF outcome = "thrown" THEN "terminate" ELSE "signal"

\* (*invoker)(), line 218: a payload that waits on a future calls Wait first;
\* at its end the invoker marks its shared state DONE.  Line 234 follows: the
\* finished invoker's state mutex, held over the whole loop on dependents.
RunPayload(th) ==
  /\ AtPc(th, "Payload") \/ AtPc(th, "PayloadEnd")
  /\ LET t == Top(th).t
     IN IF Top(th).pc = "Payload" /\ waitsOn[t] # Null
          THEN /\ stack' = Call(th, [Top(th) EXCEPT !.pc = "PayloadEnd"], Frame("Wait", waitsOn[t]))
               /\ UNCHANGED <<status, stateMutex, crashed>>
          ELSE IF AfterInvoker(InvokerOutcome(t \in throws)) = "terminate"
            THEN /\ crashed' = TRUE
                 /\ UNCHANGED <<status, stateMutex, stack>>
            ELSE /\ stateMutex[t] = Free
                 /\ status' = [status EXCEPT ![t] = "DONE"]
                 /\ stateMutex' = [stateMutex EXCEPT ![t] = th]
                 /\ stack' = SetTop(th, [Top(th) EXCEPT !.pc = "SignalLoop", !.i = 1, !.launch = <<>>])
                 /\ UNCHANGED crashed
  /\ UNCHANGED <<remaining, dependents, invokerIndex, isHighPriority, InvokerQueue, InvokersOnHold, Mutex, sleeping>>
  /\ UNCHANGED <<planVars, poolVars, histVars>>

\* ------------------------------------- SignalDependentSharedFutures
\* Line 265: an invoker moved to invokersToLaunch keeps its status.
Collect_enqueued(st, d) == [st EXCEPT ![d] = "ENQUEUED"]
Collect(st, d) == st

\* Lines 235-269, one dependent: locked, decremented and tested; one that is
\* ON_HOLD with no prior left is taken out of InvokersOnHold (dereferencing
\* end() when it is not there) and, by IsHighPriority, invoked by this thread
\* (which keeps the finished invoker's state mutex) or collected.  After the
\* last dependent the state mutex is released.
SignalDependent(th) ==
  /\ AtPc(th, "SignalLoop")
  /\ LET f == Top(th)
         t == f.t
     IN IF f.i > Len(dependents[t])
          THEN /\ stateMutex' = [stateMutex EXCEPT ![t] = Free]
               /\ stack' = IF f.launch = <<>> THEN Return(th) ELSE SetTop(th, [f EXCEPT !.pc = "Reinsert"])
               /\ UNCHANGED <<status, remaining, InvokersOnHold, started, zeroHits, removals, pastDue, crashed>>
          ELSE LET d == dependents[t][f.i]
                   rem == Decrement(remaining, d)
               IN /\ stateMutex[d] = Free
                  /\ remaining' = rem
                  /\ zeroHits' = [zeroHits EXCEPT ![d] = IF rem[d] = 0 THEN @ + 1 ELSE @]
                  /\ UNCHANGED stateMutex
                  /\ IF ~ReadyToLaunch(status, rem, d)
                       THEN /\ stack' = SetTop(th, [f EXCEPT !.i = @ + 1])
                            /\ UNCHANGED <<status, InvokersOnHold, started, removals, pastDue, crashed>>
                       ELSE IF d \notin InvokersOnHold
                         THEN /\ crashed' = TRUE
                              /\ UNCHANGED <<status, InvokersOnHold, started, removals, pastDue, stack>>
                         ELSE /\ InvokersOnHold' = InvokersOnHold \ {d}
                              /\ removals' = [removals EXCEPT ![d] = @ + 1]
                              /\ pastDue' = pastDue \cup {d}
                              /\ UNCHANGED crashed
                              /\ IF isHighPriority[d]
                                   THEN /\ status' = InvokeStatus(status, d)
                                        /\ started' = [started EXCEPT ![d] = @ + 1]
                                        /\ stack' = Call(th, [f EXCEPT !.i = @ + 1], Frame("Payload", d))
                                   ELSE /\ stack' = SetTop(th, [f EXCEPT !.i = @ + 1, !.launch = Append(@, d)])
                                        /\ status' = Collect(status, d)
                                        /\ UNCHANGED started
  /\ UNCHANGED <<dependents, invokerIndex, isHighPriority, InvokerQueue, Mutex, sleeping>>
  /\ UNCHANGED <<planVars, poolVars, owes, waitReturns>>

\* Lines 279-290: the collected invokers get indices counting down from
\* `start`, and each goes to the front.
RECURSIVE ReinsertIndex(_, _, _, _)
ReinsertIndex(idx, launch, k, start) ==
  IF k > Len(launch) THEN idx
  ELSE ReinsertIndex([idx EXCEPT ![launch[k]] = start - k], launch, k + 1, start)

RECURSIVE ReinsertQueue(_, _, _)
ReinsertQueue_drop(q, launch, k) == q
ReinsertQueue(q, launch, k) ==
  IF k > Len(launch) THEN q ELSE ReinsertQueue(<<launch[k]>> \o q, launch, k + 1)

\* Lines 270-295: under the queue mutex the collected invokers become
\* ENQUEUED, each under its own state mutex (front() of a non-empty queue is
\* dereferenced for the first index); then one notify_one per invoker.
Reinsert(th) ==
  /\ AtPc(th, "Reinsert")
  /\ Mutex = Free
  /\ LET launch == Top(th).launch
         inLaunch == { launch[k] : k \in 1..Len(launch) }
     IN /\ \A d \in inLaunch : stateMutex[d] = Free
        /\ IF InvokerQueue # <<>> /\ Head(InvokerQueue) = Null
             THEN /\ crashed' = TRUE
                  /\ UNCHANGED <<status, invokerIndex, InvokerQueue, sleeping, stack>>
             ELSE /\ invokerIndex' = ReinsertIndex(invokerIndex, launch, 1, ReinsertStart(InvokerQueue, launch))
                  /\ status' = [d \in Tasks |-> IF d \in inLaunch THEN "ENQUEUED" ELSE status[d]]
                  /\ InvokerQueue' = ReinsertQueue(InvokerQueue, launch, 1)
                  /\ sleeping' \in NotifyOne(Len(launch))
                  /\ stack' = Return(th)
                  /\ UNCHANGED crashed
  /\ UNCHANGED <<remaining, dependents, isHighPriority, InvokersOnHold, Mutex, stateMutex>>
  /\ UNCHANGED <<planVars, poolVars, histVars>>

\* ------------------------------------------------------- TryInvoke
\* The slot TryInvoke moves from, lines 319-321 (1-based in the sequence).
TryInvokeSlot(f, q) == Offset(f, q) + 1

\* The queue TryInvoke leaves, lines 321-328.
TryInvokeTake_copy(q, slot) == q
TryInvokeTake(q, slot) ==
  IF slot = 1 THEN PopFront(q) ELSE [q EXCEPT ![slot] = Null]

\* TryInvoke, lines 301-337, reached from Wait on a future read ENQUEUED.
\* Under the state mutex the status is read again; under the queue mutex the
\* slot at InvokerIndex - front's InvokerIndex is moved out.  A slot outside
\* the deque is undefined behaviour: the read yields a null pointer or the
\* process dies.  A non-null invoker is invoked with the caller's state lock,
\* and Wait returns after it; otherwise Wait looks at the status again.
TryInvoke(th) ==
  LET f == Top(th).t
      q == InvokerQueue
      slot == TryInvokeSlot(f, q)
      retry == /\ stack' = SetTop(th, [Top(th) EXCEPT !.pc = "Wait"])
               /\ UNCHANGED <<status, started, crashed>>
  IN /\ stateMutex[f] = Free
     /\ Mutex = Free
     /\ IF q = <<>>
          THEN retry /\ UNCHANGED InvokerQueue
          ELSE IF slot \notin 1..Len(q)
            THEN \/ retry /\ UNCHANGED InvokerQueue
                 \/ /\ crashed' = TRUE
                    /\ UNCHANGED <<status, started, InvokerQueue, stack>>
            ELSE IF q[slot] = Null
              THEN retry /\ InvokerQueue' = TryInvokeTake(q, slot)
              ELSE /\ InvokerQueue' = TryInvokeTake(q, slot)
                   /\ status' = InvokeStatus(status, q[slot])
                   /\ started' = [started EXCEPT ![q[slot]] = @ + 1]
                   /\ stack' = Call(th, [Top(th) EXCEPT !.pc = "WaitReturn"], Frame("Payload", q[slot]))
                   /\ UNCHANGED crashed

\* ------------------------------------------------------------ Wait
\* Wait reads the status of the future: a queued invoker is claimed with
\* TryInvoke, one on hold is marked high priority, otherwise the caller
\* blocks until the future is DONE.
WaitStep(th) ==
  /\ AtPc(th, "Wait")
  /\ LET f == Top(th).t
     IN IF status[f] = "ENQUEUED"
          THEN /\ TryInvoke(th)
               /\ UNCHANGED isHighPriority
          ELSE /\ stack' = SetTop(th, [Top(th) EXCEPT !.pc = "WaitBlock"])
               /\ isHighPriority' = IF status[f] = "ON_HOLD" THEN [isHighPriority EXCEPT ![f] = TRUE] ELSE isHighPriority
               /\ UNCHANGED <<status, started, InvokerQueue, crashed>>
  /\ UNCHANGED <<remaining, dependents, invokerIndex, InvokersOnHold, Mutex, stateMutex, sleeping>>
  /\ UNCHANGED <<planVars, poolVars, zeroHits, removals, pastDue, owes, waitReturns>>

\* Wait returns: after TryInvoke ran an invoker, or once the future is DONE.
WaitReturn(th) ==
  /\ \/ AtPc(th, "WaitReturn")
     \/ AtPc(th, "WaitBlock") /\ status[Top(th).t] = "DONE"
  /\ waitReturns' = waitReturns \cup { <<Top(th).t, status[Top(th).t]>> }
  /\ stack' = Return(th)
  /\ UNCHANGED <<queueVars, planVars, poolVars, started, zeroHits, removals, pastDue, owes, crashed>>

\* ------------------------------------------- Push and PushDependent
InQueue(d) == \E k \in 1..Len(InvokerQueue) : InvokerQueue[k] = d

\* A task that is on hold or in the queue: no thread has claimed it.
Unclaimed(d) == status[d] = "ON_HOLD" \/ (status[d] = "ENQUEUED" /\ InQueue(d))

\* Push: under the queue mutex the invoker gets its index and is appended
\* with status ENQUEUED; then one worker is woken.
PushBack(t) ==
  /\ Mutex = Free
  /\ invokerIndex' = [invokerIndex EXCEPT ![t] = PushIndex(InvokerQueue)]
  /\ InvokerQueue' = Append(InvokerQueue, t)
  /\ status' = [status EXCEPT ![t] = "ENQUEUED"]
  /\ sleeping' \in NotifyOne(1)

\* The main thread submits the next task with Push.
SubmitPush ==
  /\ AtPc(Main, "Main")
  /\ HasNextTask
  /\ priors[NextTask] = <<>>
  /\ PushBack(NextTask)
  /\ owes' = owes \cup { <<d, NextTask, InQueue(d)>> : d \in { x \in pastDue : Unclaimed(x) } }
  /\ UNCHANGED <<remaining, dependents, isHighPriority, InvokersOnHold, Mutex, stateMutex>>
  /\ UNCHANGED <<planVars, poolVars, started, zeroHits, removals, pastDue, waitReturns, stack, crashed>>

\* The main thread submits the next task with PushDependent: the shared
\* state is constructed, not yet ON_HOLD.
SubmitDependent ==
  /\ AtPc(Main, "Main")
  /\ HasNextTask
  /\ priors[NextTask] # <<>>
  /\ status' = [status EXCEPT ![NextTask] = "CONSTRUCTING"]
  /\ stack' = Call(Main, Top(Main), [Frame("Register", NextTask) EXCEPT !.i = 1])
  /\ UNCHANGED <<remaining, dependents, invokerIndex, isHighPriority, InvokerQueue, InvokersOnHold, Mutex, stateMutex, sleeping>>
  /\ UNCHANGED <<planVars, poolVars, histVars, crashed>>

\* PushDependent: under the prior's mutex, a prior that is not DONE gets the
\* new state appended to its dependents and is counted.
Register(th) ==
  /\ AtPc(th, "Register")
  /\ LET f == Top(th)
         t == f.t
         p == priors[t][f.i]
     IN /\ stateMutex[p] = Free
        /\ stack' = SetTop(th, [f EXCEPT !.i = @ + 1, !.pc = IF f.i = Len(priors[t]) THEN "Finalize" ELSE "Register"])
        /\ IF status[p] # "DONE"
             THEN /\ dependents' = [dependents EXCEPT ![p] = Append(@, t)]
                  /\ remaining' = [remaining EXCEPT ![t] = @ + 1]
             ELSE UNCHANGED <<dependents, remaining>>
  /\ UNCHANGED <<status, invokerIndex, isHighPriority, InvokerQueue, InvokersOnHold, Mutex, stateMutex, sleeping>>
  /\ UNCHANGED <<planVars, poolVars, histVars, crashed>>

\* PushDependent: under the new state's mutex, a state with priors left goes
\* ON_HOLD into InvokersOnHold; one with none is pushed like Push.
Finalize(th) ==
  /\ AtPc(th, "Finalize")
  /\ LET t == Top(th).t
     IN /\ stateMutex[t] = Free
        /\ IF remaining[t] # 0
             THEN /\ status' = [status EXCEPT ![t] = "ON_HOLD"]
                  /\ InvokersOnHold' = InvokersOnHold \cup {t}
                  /\ UNCHANGED <<invokerIndex, InvokerQueue, sleeping>>
             ELSE /\ PushBack(t)
                  /\ UNCHANGED InvokersOnHold
  /\ stack' = Return(th)
  /\ UNCHANGED <<remaining, dependents, isHighPriority, Mutex, stateMutex>>
  /\ UNCHANGED <<planVars, poolVars, histVars, crashed>>

\* The main thread calls Wait on a future it holds.
MainWait(f) ==
  /\ AtPc(Main, "Main")
  /\ waitsLeft > 0
  /\ status[f] \in {"ON_HOLD", "ENQUEUED", "RUNNING", "DONE"}
  /\ waitsLeft' = waitsLeft - 1
  /\ stack' = Call(Main, Top(Main), Frame("Wait", f))
  /\ UNCHANGED <<queueVars, numTasks, priors, waitsOn, resizesLeft, throws, poolVars, histVars, crashed>>

\* ------------------------------------------------------------ Next
Next ==
  \/ \E w \in ThreadIds : WorkerPop(w)
  \/ \E w \in ThreadIds : WorkerCvWait(w)
  \/ \E w \in ThreadIds : WorkerInvoke(w)
  \/ \E th \in AllThreads : RunPayload(th)
  \/ \E th \in AllThreads : SignalDependent(th)
  \/ \E th \in AllThreads : Reinsert(th)
  \/ \E th \in AllThreads : WaitStep(th)
  \/ \E th \in AllThreads : WaitReturn(th)
  \/ SubmitPush
  \/ SubmitDependent
  \/ \E th \in AllThreads : Register(th)
  \/ \E th \in AllThreads : Finalize(th)
  \/ \E f \in Tasks : MainWait(f)

Spec == Init /\ [][Next]_vars

\* ------------------------------------------------------ nested waits
\* MaxTasks + 1 tasks with at most one prior each, run by one worker; the
\* payload of the last task calls Wait on the future of an earlier one; the
\* main thread only submits.
InitNested ==
  /\ InitQueue
  /\ InitPool(1)
  /\ numTasks = MaxTasks + 1
  /\ priors \in PriorPlans(MaxTasks + 1, 1)
  /\ \E f \in 1..MaxTasks : waitsOn = [t \in Tasks |-> IF t = MaxTasks + 1 THEN f ELSE Null]
  /\ waitsLeft = 0
  /\ resizesLeft = 0
  /\ throws = {}

NextNested ==
  \/ \E w \in ThreadIds : WorkerPop(w)
  \/ \E w \in ThreadIds : WorkerCvWait(w)
  \/ \E w \in ThreadIds : WorkerInvoke(w)
  \/ \E th \in AllThreads : RunPayload(th)
  \/ \E th \in AllThreads : SignalDependent(th)
  \/ \E th \in AllThreads : Reinsert(th)
  \/ \E th \in AllThreads : WaitStep(th)
  \/ \E th \in AllThreads : WaitReturn(th)
  \/ SubmitPush
  \/ SubmitDependent
  \/ \E th \in AllThreads : Register(th)
  \/ \E th \in AllThreads : Finalize(th)

SpecNested == InitNested /\ [][NextNested]_vars

\* ------------------------------------------------- scenario A then B
\* Task 1 (A) has no prior, task 2 (B) depends on A; one worker; the main
\* thread submits both and may call Wait once.
InitAB ==
  /\ InitQueue
  /\ InitPool(1)
  /\ numTasks = 2
  /\ priors = [t \in Tasks |-> IF t = 2 THEN <<1>> ELSE <<>>]
  /\ waitsOn = [t \in Tasks |-> Null]
  /\ waitsLeft = MaxWaits
  /\ resizesLeft = 0
  /\ throws = {}

\* The steps a thread takes by itself once it runs: a worker's loop, and
\* whatever a thread does inside Wait, a payload or the signaling after it.
ThreadRuns(th) ==
  \/ th \in ThreadIds /\ (WorkerPop(th) \/ WorkerCvWait(th) \/ WorkerInvoke(th))
  \/ RunPayload(th) \/ SignalDependent(th) \/ Reinsert(th)
  \/ WaitStep(th) \/ WaitReturn(th)

\* Every thread is scheduled: a step it can take for ever is taken.
Fairness == \A th \in AllThreads : WF_vars(ThreadRuns(th))

SpecAB == InitAB /\ [][Next]_vars /\ Fairness

\* ------------------------------------------------- SetNumberOfThreads
ResizePcs == {"ResizeLock", "Grow", "ShrinkLookup", "ShrinkSet", "ShrinkNotify", "Join", "ResizeReturn"}
InResize == \E th \in AllThreads : \E k \in 1..Len(stack[th]) : stack[th][k].pc \in ResizePcs
Live == { w \in ThreadIds : stack[w] # <<>> }
Handles == { Threads[k] : k \in 1..Len(Threads) }

\* SetNumberOfThreads(n), lines 130-133, called by the main thread or from a
\* payload: the body handed to PushControl runs on the calling thread, one
\* body at a time; it first reads Threads.size().
CallResize(th, n) ==
  /\ AtPc(th, "Main") \/ AtPc(th, "Payload")
  /\ resizesLeft > 0
  /\ ~InResize
  /\ resizesLeft' = resizesLeft - 1
  /\ stack' = Call(th, Top(th), [Frame("ResizeLock", Null) EXCEPT !.i = n, !.index = Len(Threads)])
  /\ UNCHANGED <<queueVars, numTasks, priors, waitsOn, waitsLeft, throws, poolVars, histVars, crashed>>

\* Line 140.
NothingToDo_never(size, n) == FALSE
NothingToDo(size, n) == size = n

\* Line 136: the call is refused while the queue is being destroyed.
ResizeRefused_never(destroying) == FALSE
ResizeRefused(destroying) == destroying

\* Lines 118 and 135: destroyLock is acquired once DestroyMutex is free.
destroyLock_any(m) == TRUE
destroyLock(m) == m = Free

\* Lines 135-149: DestroyMutex is taken; nothing to do when destroying or
\* when the size read equals n; growth sets NumberOfThreads first.
ResizeLock(th) ==
  /\ AtPc(th, "ResizeLock")
  /\ destroyLock(DestroyMutex)
  /\ LET n == Top(th).i
         size == Top(th).index
     IN IF ResizeRefused(Destroying) \/ NothingToDo(size, n)
          THEN /\ stack' = SetTop(th, [Top(th) EXCEPT !.pc = "ResizeReturn"])
               /\ UNCHANGED NumberOfThreads
          ELSE IF size < n
            THEN /\ NumberOfThreads' = n
                 /\ stack' = SetTop(th, [Top(th) EXCEPT !.pc = "Grow"])
            ELSE /\ stack' = SetTop(th, [Top(th) EXCEPT !.pc = "ShrinkLookup"])
                 /\ UNCHANGED NumberOfThreads
  /\ DestroyMutex' = th
  /\ UNCHANGED <<queueVars, planVars, Threads, threadIndex, ThreadIdToIndex, Destroying, histVars, crashed>>

\* Lines 151-160, one generated thread: its index is Threads.size(), it
\* starts in ThreadWorker::operator(), its id is registered and its handle
\* appended; n - size threads are generated.
\* Lines 152-153: the index of a new worker is Threads.size() at its creation.
SpawnIndex_next(thr) == Len(thr) + 1
SpawnIndex(thr) == Len(thr)

Grow(th) ==
  /\ AtPc(th, "Grow")
  /\ LET n == Top(th).i
         size == Top(th).index
     IN IF size < n
          THEN \E u \in ThreadIds \ (Live \cup Handles) :
                 /\ threadIndex' = [threadIndex EXCEPT ![u] = SpawnIndex(Threads)]
                 /\ ThreadIdToIndex' = ThreadIdToIndex \cup {u}
                 /\ Threads' = Append(Threads, u)
                 /\ stack' = [SetTop(th, [Top(th) EXCEPT !.index = size + 1]) EXCEPT ![u] = << Frame("Pop", Null) >>]
          ELSE /\ stack' = SetTop(th, [Top(th) EXCEPT !.pc = "ResizeReturn"])
               /\ UNCHANGED <<threadIndex, ThreadIdToIndex, Threads>>
  /\ UNCHANGED <<queueVars, planVars, NumberOfThreads, Destroying, DestroyMutex, histVars, crashed>>

\* Line 177: the caller's handle and the handle of slot 0 change places.
SwapThreads(thr, k) == [thr EXCEPT ![1] = thr[k], ![k] = thr[1]]

\* Lines 180-182: the caller's index and the index of the worker of slot 0
\* change places.
SwapIndex_none(ix, c, z) == ix
SwapIndex(ix, c, z) == [ix EXCEPT ![c] = ix[z], ![z] = ix[c]]

\* Lines 170-183: ThreadIdToIndex.at(this thread) throws out_of_range for a
\* caller that is no registered worker, and the call ends there, the locks
\* released by unwinding; a worker whose index is not 0 and at least n swaps
\* with the worker of slot 0.
ShrinkLookup(th) ==
  /\ AtPc(th, "ShrinkLookup")
  /\ LET n == Top(th).i
     IN IF th \notin ThreadIdToIndex
          THEN /\ DestroyMutex' = Free
               /\ stack' = Return(th)
               /\ UNCHANGED <<Threads, threadIndex>>
          ELSE /\ IF threadIndex[th] # 0 /\ threadIndex[th] >= n
                    THEN /\ Threads' = SwapThreads(Threads, threadIndex[th] + 1)
                         /\ threadIndex' = SwapIndex(threadIndex, th, Threads[1])
                    ELSE UNCHANGED <<Threads, threadIndex>>
               /\ stack' = SetTop(th, [Top(th) EXCEPT !.pc = "ShrinkSet"])
               /\ UNCHANGED DestroyMutex
  /\ UNCHANGED <<queueVars, planVars, NumberOfThreads, ThreadIdToIndex, Destroying, histVars, crashed>>

\* Line 186: NumberOfThreads is lowered, the queue mutex not held.
ShrinkSet(th) ==
  /\ AtPc(th, "ShrinkSet")
  /\ NumberOfThreads' = Top(th).i
  /\ stack' = SetTop(th, [Top(th) EXCEPT !.pc = "ShrinkNotify"])
  /\ UNCHANGED <<queueVars, planVars, Threads, threadIndex, ThreadIdToIndex, Destroying, DestroyMutex, histVars, crashed>>

\* Sync(startId), line 199: the first slot joined (slots count from 1 here).
SyncStart_late(n) == n + 2
SyncStart(n) == n + 1

\* ConditionVariable.notify_all, lines 125 and 187: the workers left blocked.
notify_all_none(blocked) == blocked
notify_all(blocked) == {}

\* Line 187: notify_all releases every worker blocked in wait.
ShrinkNotify(th) ==
  /\ AtPc(th, "ShrinkNotify")
  /\ sleeping' = notify_all(sleeping)
  /\ stack' = SetTop(th, [Top(th) EXCEPT !.pc = "Join", !.index = SyncStart(NumberOfThreads)])
  /\ UNCHANGED <<status, remaining, dependents, invokerIndex, isHighPriority, InvokerQueue, InvokersOnHold, Mutex, stateMutex>>
  /\ UNCHANGED <<planVars, poolVars, histVars, crashed>>

\* Line 191.
ResizeThreads(thr, n) == SubSeq(thr, 1, n)

\* Sync, lines 197-201, one join: it returns once the thread of the slot has
\* left ThreadWorker::operator(); joining the calling thread itself throws
\* out of the body.  After the last slot, line 191 resizes Threads.
Join(th) ==
  /\ AtPc(th, "Join")
  /\ LET k == Top(th).index
     IN IF k > Len(Threads)
          THEN /\ Threads' = ResizeThreads(Threads, Top(th).i)
               /\ stack' = SetTop(th, [Top(th) EXCEPT !.pc = "ResizeReturn"])
               /\ UNCHANGED crashed
          ELSE IF Threads[k] = th
            THEN /\ crashed' = TRUE
                 /\ UNCHANGED <<Threads, stack>>
            ELSE /\ stack[Threads[k]] = <<>>
                 /\ stack' = SetTop(th, [Top(th) EXCEPT !.index = k + 1])
                 /\ UNCHANGED <<Threads, crashed>>
  /\ UNCHANGED <<queueVars, planVars, NumberOfThreads, threadIndex, ThreadIdToIndex, Destroying, DestroyMutex, histVars>>

\* The body returns: DestroyMutex is released.
ResizeReturn(th) ==
  /\ AtPc(th, "ResizeReturn")
  /\ DestroyMutex' = Free
  /\ stack' = Return(th)
  /\ UNCHANGED <<queueVars, planVars, NumberOfThreads, Threads, threadIndex, ThreadIdToIndex, Destroying, histVars, crashed>>

\* ThreadWorker::operator(), lines 45-46: the loop over, the worker erases
\* its id from ThreadIdToIndex and the thread ends.
WorkerExit(w) ==
  /\ AtPc(w, "Exit")
  /\ ThreadIdToIndex' = ThreadIdToIndex \ {w}
  /\ stack' = [stack EXCEPT ![w] = <<>>]
  /\ UNCHANGED <<queueVars, planVars, NumberOfThreads, Threads, threadIndex, Destroying, DestroyMutex, histVars, crashed>>

\* Plain pushes by the main thread while the pool is resized from the main
\* thread and from payloads.
InitResize ==
  /\ InitQueue
  /\ \E n \in 1..MaxThreads : InitPool(n)
  /\ numTasks = MaxTasks
  /\ priors = [t \in Tasks |-> <<>>]
  /\ waitsOn = [t \in Tasks |-> Null]
  /\ waitsLeft = 0
  /\ resizesLeft = MaxResizes
  /\ throws = {}

NextResize ==
  \/ \E w \in ThreadIds : WorkerPop(w)
  \/ \E w \in ThreadIds : WorkerCvWait(w)
  \/ \E w \in ThreadIds : WorkerInvoke(w)
  \/ \E w \in ThreadIds : WorkerExit(w)
  \/ \E th \in AllThreads : RunPayload(th)
  \/ \E th \in AllThreads : SignalDependent(th)
  \/ SubmitPush
  \/ \E th \in AllThreads, n \in 1..MaxThreads : CallResize(th, n)
  \/ \E th \in AllThreads : ResizeLock(th)
  \/ \E th \in AllThreads : Grow(th)
  \/ \E th \in AllThreads : ShrinkLookup(th)
  \/ \E th \in AllThreads : ShrinkSet(th)
  \/ \E th \in AllThreads : ShrinkNotify(th)
  \/ \E th \in AllThreads : Join(th)
  \/ \E th \in AllThreads : ResizeReturn(th)

SpecResize == InitResize /\ [][NextResize]_vars

\* ------------------------------------------- the pool, lock by lock
\* Pop, lines 57-69, up to the decision: under the queue mutex OnHold() and
\* Continue() are evaluated.  A worker that goes on keeps the mutex until it
\* has moved the front invoker out; NumberOfThreads can be written meanwhile
\* (line 186 does not take the mutex).
WorkerDecide(w) ==
  /\ AtPc(w, "Pop") \/ (AtPc(w, "CvBlocked") /\ w \notin sleeping)
  /\ Mutex = Free
  /\ IF OnHold(w)
       THEN /\ Mutex' = w
            /\ stack' = SetTop(w, [Top(w) EXCEPT !.pc = "CvWait"])
       ELSE IF ~Continue(w)
         THEN /\ stack' = SetTop(w, [Top(w) EXCEPT !.pc = "Exit"])
              /\ UNCHANGED Mutex
         ELSE /\ Mutex' = w
              /\ stack' = SetTop(w, [Top(w) EXCEPT !.pc = "Take"])
  /\ UNCHANGED <<status, remaining, dependents, invokerIndex, isHighPriority, InvokerQueue, InvokersOnHold, stateMutex, sleeping>>
  /\ UNCHANGED <<planVars, poolVars, histVars, crashed>>

\* Pop, lines 71-77: the front invoker is moved out, leading moved-from
\* slots are dropped and the queue mutex is released.
WorkerTake(w) ==
  /\ AtPc(w, "Take")
  /\ stack' = SetTop(w, [Top(w) EXCEPT !.pc = "Invoke", !.t = PopResult(InvokerQueue).invoker])
  /\ InvokerQueue' = PopResult(InvokerQueue).queue
  /\ Mutex' = Free
  /\ UNCHANGED <<status, remaining, dependents, invokerIndex, isHighPriority, InvokersOnHold, stateMutex, sleeping>>
  /\ UNCHANGED <<planVars, poolVars, histVars, crashed>>

\* ------------------------------------------------------- destructor
InDestructor(th) == \E k \in 1..Len(stack[th]) : stack[th][k].pc \in {"DestroyLock", "DestroyNotify", "DestroyJoin"}

\* The owner of the queue, the main thread, destroys it.
CallDestroy ==
  /\ AtPc(Main, "Main")
  /\ stack' = Call(Main, Top(Main), Frame("DestroyLock", Null))
  /\ UNCHANGED <<queueVars, planVars, poolVars, histVars, crashed>>

\* Lines 117-123: under DestroyMutex and the queue mutex Destroying is set.
DestroyLock(th) ==
  /\ AtPc(th, "DestroyLock")
  /\ destroyLock(DestroyMutex)
  /\ Mutex = Free
  /\ Destroying' = TRUE
  /\ stack' = SetTop(th, [Top(th) EXCEPT !.pc = "DestroyNotify"])
  /\ UNCHANGED <<queueVars, planVars, NumberOfThreads, Threads, threadIndex, ThreadIdToIndex, DestroyMutex, histVars, crashed>>

\* Line 125: notify_all; line 126 starts Sync at the first slot.
DestroyNotify(th) ==
  /\ AtPc(th, "DestroyNotify")
  /\ sleeping' = notify_all(sleeping)
  /\ stack' = SetTop(th, [Top(th) EXCEPT !.pc = "DestroyJoin", !.index = SyncStart(0)])
  /\ UNCHANGED <<status, remaining, dependents, invokerIndex, isHighPriority, InvokerQueue, InvokersOnHold, Mutex, stateMutex>>
  /\ UNCHANGED <<planVars, poolVars, histVars, crashed>>

\* Sync, lines 197-201, one join of the destructor; after the last slot the
\* destructor returns and the queue is gone.
DestroyJoin(th) ==
  /\ AtPc(th, "DestroyJoin")
  /\ LET k == Top(th).index
     IN IF k > Len(Threads)
          THEN /\ stack' = [stack EXCEPT ![th] = << Frame("Destroyed", Null) >>]
               /\ UNCHANGED crashed
          ELSE IF Threads[k] = th
            THEN /\ crashed' = TRUE
                 /\ UNCHANGED stack
            ELSE /\ stack[Threads[k]] = <<>>
                 /\ stack' = SetTop(th, [Top(th) EXCEPT !.index = k + 1])
                 /\ UNCHANGED crashed
  /\ UNCHANGED <<queueVars, planVars, poolVars, histVars>>

\* Plain pushes by the main thread, which then may destroy the queue, while
\* payloads resize the pool.
NextPool ==
  \/ \E w \in ThreadIds : WorkerDecide(w)
  \/ \E w \in ThreadIds : WorkerTake(w)
  \/ \E w \in ThreadIds : WorkerCvWait(w)
  \/ \E w \in ThreadIds : WorkerInvoke(w)
  \/ \E w \in ThreadIds : WorkerExit(w)
  \/ \E th \in AllThreads : RunPayload(th)
  \/ \E th \in AllThreads : SignalDependent(th)
  \/ SubmitPush
  \/ \E th \in AllThreads, n \in 1..MaxThreads : CallResize(th, n)
  \/ \E th \in AllThreads : ResizeLock(th)
  \/ \E th \in AllThreads : Grow(th)
  \/ \E th \in AllThreads : ShrinkLookup(th)
  \/ \E th \in AllThreads : ShrinkSet(th)
  \/ \E th \in AllThreads : ShrinkNotify(th)
  \/ \E th \in AllThreads : Join(th)
  \/ \E th \in AllThreads : ResizeReturn(th)
  \/ CallDestroy
  \/ \E th \in AllThreads : DestroyLock(th)
  \/ \E th \in AllThreads : DestroyNotify(th)
  \/ \E th \in AllThreads : DestroyJoin(th)

SpecPool == InitResize /\ [][NextPool]_vars

\* ================================================================ claims
InWait(th, f) == \E k \in 1..Len(stack[th]) : stack[th][k].pc \in {"Wait", "WaitBlock", "WaitReturn"} /\ stack[th][k].t = f
Runs(th, t) == \E k \in 1..Len(stack[th]) : stack[th][k].pc \in {"Payload", "PayloadEnd"} /\ stack[th][k].t = t
RunsInline(th, t) == \E k \in 2..Len(stack[th]) : stack[th][k].pc \in {"Payload", "PayloadEnd"} /\ stack[th][k].t = t /\ stack[th][k - 1].pc = "SignalLoop"
Holds(th, t) == AtPc(th, "Invoke") /\ Top(th).t = t
PriorsDone(t) == \A i \in 1..Len(priors[t]) : status[priors[t][i]] = "DONE"

\* C1: no payload is started twice: whatever workers popping the front, Wait
\* callers claiming by index and signaling threads running a high-priority
\* dependent inline do, each task's invoker is obtained for execution at most once.
C1_NoDoubleExecution == \A t \in Tasks : started[t] <= 1

\* C1 witness: the main thread runs a payload it claimed by index while a
\* worker holds or runs another invoker, each started once.
C1_Witness ==
  \E t \in Tasks, u \in Tasks, w \in ThreadIds :
    /\ t # u /\ Runs(Main, t) /\ started[t] = 1
    /\ (Holds(w, u) \/ (Runs(w, u) /\ started[u] = 1))

\* C2: a task submitted with priors is RUNNING (or DONE) only when every one
\* of its priors is DONE.
C2_DependencyOrder == \A t \in Tasks : status[t] \in {"RUNNING", "DONE"} => PriorsDone(t)

\* C2 witness: a task with two distinct priors is running, by a worker pop,
\* and another run has a dependent run inline by the signaling thread.
C2_Witness ==
  \E t \in Tasks, th \in AllThreads :
    /\ Len(priors[t]) = 2 /\ priors[t][1] # priors[t][2]
    /\ status[t] = "RUNNING" /\ Runs(th, t)

StatusRank(st) == CASE st = "ON_HOLD" -> 1 [] st = "ENQUEUED" -> 2 [] st = "RUNNING" -> 3 [] st = "DONE" -> 4 [] OTHER -> 0

\* C3 as stated: every change of a constructed state's status is exactly one
\* step forward in ON_HOLD -> ENQUEUED -> RUNNING -> DONE.
C3_OneStepForward ==
  [][\A t \in Tasks : (StatusRank(status[t]) > 0 /\ status'[t] # status[t]) => StatusRank(status'[t]) = StatusRank(status[t]) + 1]_vars

\* C3 amended: every change of a constructed state's status goes forward, one
\* step at a time except that a high-priority dependent run inline by the
\* signaling thread goes from ON_HOLD directly to RUNNING.
C3_ForwardOnly ==
  [][\A t \in Tasks : (StatusRank(status[t]) > 0 /\ status'[t] # status[t]) =>
        \/ StatusRank(status'[t]) = StatusRank(status[t]) + 1
        \/ status[t] = "ON_HOLD" /\ status'[t] = "RUNNING" /\ isHighPriority[t]]_vars

\* C3 witness: a dependent that was on hold is run inline by the thread that
\* signaled its last prior.
C3_Witness == \E th \in AllThreads, t \in Tasks : RunsInline(th, t) /\ status[t] = "RUNNING"

C5_WaitReturnsDone == \A r \in waitReturns : r[2] = "DONE"

\* C6: a thread inside Wait is never stuck: as long as the process has not
\* died, some thread can take a step (with terminating payloads and an
\* acyclic graph a state where nothing can step leaves the Wait pending for
\* ever).
C6_WaitNeverStuck ==
  (~crashed /\ \E th \in AllThreads, f \in Tasks : InWait(th, f)) => ENABLED NextNested

Plain(t) == t <= numTasks /\ priors[t] = <<>>
Claimed(t) == InQueue(t) /\ ~InQueue(t)'
WorkerPops(w, t) == ~Holds(w, t) /\ Holds(w, t)'

\* C8 as stated: of two plain pushes with no dependency resolution so far,
\* the earlier one is claimed, by a worker or by a Wait caller, no later than
\* the later one.
C8_FifoAnyClaimer ==
  [][\A t1 \in Tasks, t2 \in Tasks :
        (t1 < t2 /\ Plain(t1) /\ Plain(t2) /\ pastDue = {} /\ Claimed(t2)) => ~InQueue(t1)]_vars

\* C8 amended: of two plain pushes with no dependency resolution so far, no
\* worker pops the later one while the earlier one is still in the queue; a
\* Wait caller claims the task it waits on by index, whatever is ahead of it.
C8_FifoWorkers ==
  [][\A w \in ThreadIds, t1 \in Tasks, t2 \in Tasks :
        (t1 < t2 /\ Plain(t1) /\ Plain(t2) /\ pastDue = {} /\ WorkerPops(w, t2)) => ~InQueue(t1)]_vars

\* C8 witness: a worker has popped the later of two plain pushes after the
\* earlier one was started, no dependent having been resolved.
C8_Witness ==
  \E w \in ThreadIds, t1 \in Tasks, t2 \in Tasks :
    /\ t1 < t2 /\ Plain(t1) /\ Plain(t2) /\ pastDue = {}
    /\ Holds(w, t2) /\ started[t1] = 1

\* C9 as stated: a dependent whose count reached 0 is claimed before every
\* task pushed after that moment.
C9_PastDueFirst ==
  [][\A o \in owes : Claimed(o[2]) => ~Unclaimed(o[1])]_vars

\* C9 amended: once a past-due dependent is back in the queue, no worker pops
\* a task pushed after that while the dependent is still in the queue.
C9_PastDueFirstWorkers ==
  [][\A o \in owes, w \in ThreadIds : (o[3] /\ WorkerPops(w, o[2])) => ~InQueue(o[1])]_vars

\* C9 witness: a worker has popped a task pushed while a reinserted past-due
\* dependent was in the queue, that dependent having been started.
C9_Witness ==
  \E o \in owes, w \in ThreadIds : o[3] /\ Holds(w, o[2]) /\ started[o[1]] = 1

WorkerIdle(w) == stack[w] # <<>> /\ Top(w).pc \in {"Pop", "CvWait", "CvBlocked"}

\* C7: in the scenario A, B after A: B's payload never starts before A is
\* DONE, neither payload starts twice, and a Wait on B that the main thread
\* is in while A is still queued and the worker is idle leads to the Wait
\* having returned with both payloads run once and B DONE.
C7_ScenarioAB ==
  /\ [](started[1] <= 1 /\ started[2] <= 1 /\ (started[2] >= 1 => status[1] = "DONE"))
  /\ (InWait(Main, 2) /\ InQueue(1) /\ \E w \in ThreadIds : WorkerIdle(w))
       ~> (<<2, "DONE">> \in waitReturns /\ started[1] = 1 /\ started[2] = 1 /\ status[1] = "DONE")

\* C7 witness: the main thread is inside Wait on B, has marked it high
\* priority, while A is still in the queue and the worker is idle.
C7_Witness ==
  /\ InWait(Main, 2) /\ isHighPriority[2] /\ InQueue(1)
  /\ \E w \in ThreadIds : WorkerIdle(w)
  /\ numTasks = 2 /\ priors[2] = <<1>>

\* C10: while no SetNumberOfThreads body runs and the queue is not being
\* destroyed, the live workers are the threads of the handles in Threads and
\* there are NumberOfThreads of them; a body that has reached its normal
\* return leaves exactly n live workers.
C10_PoolSize ==
  /\ (~InResize /\ ~Destroying) =>
       (Cardinality(Live) = NumberOfThreads /\ Len(Threads) = NumberOfThreads /\ Handles = Live)
  /\ \A th \in AllThreads : (AtPc(th, "ResizeReturn") /\ ~Destroying) => Cardinality(Live) = Top(th).i

\* C10 witness: a worker that called SetNumberOfThreads from a payload with
\* an index of at least n has swapped with slot 0, joined the retired worker
\* and is about to return, alone in the pool.
C10_Witness ==
  \E w \in ThreadIds :
    /\ AtPc(w, "ResizeReturn") /\ Top(w).i = 1
    /\ threadIndex[w] = 0 /\ Threads = <<w>> /\ w # 1 /\ Live = {w}

Demoted(w) == stack[w] # <<>> /\ threadIndex[w] >= NumberOfThreads

\* C11: a worker whose index is at or above the numberOfThreads target does
\* not remove an invoker from the queue, and a worker that left its loop
\* does nothing but end.
C11_DemotedNeverClaims ==
  [][\A w \in ThreadIds :
        /\ Demoted(w) => \A t \in Tasks : ~WorkerPops(w, t)
        /\ (AtPc(w, "Exit") /\ stack'[w] # stack[w]) => stack'[w] = <<>>]_vars

SlotsAgree == \A k \in 1..Len(Threads) : threadIndex[Threads[k]] = k - 1
Shrinking(th) == stack[th] # <<>> /\ Top(th).pc \in {"ShrinkSet", "ShrinkNotify", "Join"}

\* C12: a worker of index k >= n, k # 0, that shrinks the pool to n takes
\* index 0 and slot 0 while the former worker 0 takes index k and slot k; from
\* then on the caller's index is below n and every handle sits in the slot of
\* its worker's index; the joins wait for the threads of slots n and up, and
\* at the return the live workers are the n handles left, the caller among
\* them and eligible to claim.
C12_SelfShrink ==
  /\ [](\A th \in ThreadIds :
          /\ (Shrinking(th) /\ ~crashed) => (SlotsAgree /\ threadIndex[th] < Top(th).i)
          /\ (AtPc(th, "ResizeReturn") /\ ~Destroying) =>
               /\ SlotsAgree /\ Live = Handles /\ Len(Threads) = Top(th).i
               /\ th \in Live /\ threadIndex[th] < NumberOfThreads)
  /\ [][\A th \in ThreadIds :
          (AtPc(th, "ShrinkLookup") /\ stack'[th] # stack[th] /\ threadIndex[th] # 0 /\ threadIndex[th] >= Top(th).i) =>
             /\ threadIndex'[th] = 0 /\ Threads'[1] = th
             /\ threadIndex'[Threads[1]] = threadIndex[th]
             /\ Threads'[threadIndex[th] + 1] = Threads[1]]_vars

\* C12 witness: a worker that was not worker 0 has shrunk the pool to one
\* thread from its payload: it is about to return holding index 0 and slot
\* 0, and the former worker 0, now of index 1, has ended.
C12_Witness ==
  \E w \in ThreadIds, z \in ThreadIds :
    /\ w # z /\ AtPc(w, "ResizeReturn") /\ ~Destroying
    /\ Threads = <<w>> /\ threadIndex[w] = 0 /\ NumberOfThreads = 1
    /\ threadIndex[z] = 1 /\ stack[z] = <<>> /\ z = 1

Destroyed == stack[Main] # <<>> /\ Top(Main).pc = "Destroyed"

\* C13: the destructor has not returned while a payload is RUNNING or a
\* worker thread is still alive.
C13_DestructorDrains ==
  (Destroyed /\ ~crashed) => (Live = {} /\ \A t \in Tasks : status[t] # "RUNNING" /\ ~\E th \in AllThreads : Runs(th, t))

\* C13 witness: the destructor waits in the join of a worker that is running
\* the payload of a RUNNING task.
C13_Witness ==
  \E t \in Tasks :
    /\ AtPc(Main, "DestroyJoin") /\ Top(Main).index <= Len(Threads)
    /\ status[t] = "RUNNING" /\ Runs(Threads[Top(Main).index], t)

\* C14: once Destroying is set, no task that is ENQUEUED or ON_HOLD becomes
\* RUNNING, and no worker removes an invoker from the queue.
C14_AbandonedNeverRun ==
  [][Destroying =>
       /\ \A t \in Tasks : status[t] \in {"ENQUEUED", "ON_HOLD"} => status'[t] # "RUNNING"
       /\ \A w \in ThreadIds, t \in Tasks : ~WorkerPops(w, t)]_vars

\* The programs of Spec with every thread scheduled.
SpecLive == Init /\ [][Next]_vars /\ Fairness

\* C15: with the queue not destroyed, a live worker and payloads that
\* terminate, every ENQUEUED task is eventually DONE.
C15_EnqueuedEventuallyDone ==
  \A t \in Tasks : (status[t] = "ENQUEUED") ~> (status[t] = "DONE")

\* What SetNumberOfThreads may change of the pool and of the workers' sleep.
resizeVars == <<NumberOfThreads, Threads, threadIndex, ThreadIdToIndex, sleeping, crashed>>

\* The steps of thread th inside SetNumberOfThreads.
ResizeStep(th, pc) == AtPc(th, pc) /\ stack'[th] # stack[th]

\* C16: a SetNumberOfThreads that takes DestroyMutex while Destroying is set
\* goes straight to its return: target, handles, indices and the workers'
\* sleep are unchanged, no thread is spawned or joined, nothing fails.
C16_ResizeWhileDestroying ==
  [][\A th \in AllThreads :
       /\ (ResizeStep(th, "ResizeLock") /\ Destroying) =>
             /\ AtPc(th, "ResizeReturn")'
             /\ UNCHANGED resizeVars
             /\ \A w \in ThreadIds \ {th} : stack'[w] = stack[w]
       /\ ResizeStep(th, "ResizeReturn") =>
             /\ UNCHANGED resizeVars
             /\ \A w \in ThreadIds \ {th} : stack'[w] = stack[w]]_vars

C16_Witness ==
  \E w \in ThreadIds :
     /\ AtPc(w, "ResizeReturn")
     /\ Destroying
     /\ Top(w).i # Top(w).index
     /\ Len(Threads) = Top(w).index

\* The call of thread th asked for the size it read at line 133.
SameSize(th) == Top(th).i = Top(th).index

\* C18: SetNumberOfThreads(n) with n equal to the number of threads changes
\* nothing: target, handles, indices, the queue and the invokers on hold
\* are unchanged and no worker is woken, spawned or joined.
C18_ResizeSameSize ==
  [][\A th \in AllThreads :
       /\ (ResizeStep(th, "ResizeLock") /\ SameSize(th)) => AtPc(th, "ResizeReturn")'
       /\ ((ResizeStep(th, "ResizeLock") \/ ResizeStep(th, "ResizeReturn")) /\ SameSize(th)) =>
             /\ UNCHANGED <<resizeVars, InvokerQueue, InvokersOnHold, invokerIndex, status>>
             /\ \A w \in ThreadIds \ {th} : stack'[w] = stack[w]]_vars

C18_Witness ==
  \E th \in AllThreads :
     /\ AtPc(th, "ResizeReturn")
     /\ SameSize(th)
     /\ ~Destroying
     /\ sleeping # {}
     /\ Len(Threads) = Top(th).i

\* ------------------------------------------------- failing payloads
\* The programs of Spec without Wait, where some payloads fail.
InitFail ==
  /\ InitQueue
  /\ \E n \in 1..MaxThreads : InitPool(n)
  /\ numTasks = MaxTasks
  /\ priors \in PriorPlans(MaxTasks, MaxPriors)
  /\ waitsOn = [t \in Tasks |-> Null]
  /\ waitsLeft = 0
  /\ resizesLeft = 0
  /\ throws \in SUBSET (1..MaxTasks) \ {{}}

NextFail ==
  \/ \E w \in ThreadIds : WorkerPop(w)
  \/ \E w \in ThreadIds : WorkerCvWait(w)
  \/ \E w \in ThreadIds : WorkerInvoke(w)
  \/ \E th \in AllThreads : RunPayload(th)
  \/ \E th \in AllThreads : SignalDependent(th)
  \/ \E th \in AllThreads : Reinsert(th)
  \/ SubmitPush
  \/ SubmitDependent
  \/ \E th \in AllThreads : Register(th)
  \/ \E th \in AllThreads : Finalize(th)

SpecFail == InitFail /\ [][NextFail]_vars

\* Thread th ends the payload of task t in this step.
PayloadEnds(th, t) ==
  /\ stack[th] # <<>> /\ Top(th).pc \in {"Payload", "PayloadEnd"} /\ Top(th).t = t
  /\ status[t] = "RUNNING"
  /\ vars' # vars
  /\ stack'[th] # stack[th] \/ crashed' # crashed

Pushed(t) == status[t] = "NONE" /\ status'[t] = "ENQUEUED"

Addressed(q, p) == q[p] # Null => invokerIndex[q[p]] = invokerIndex[q[1]] + p - 1

\* C20: whenever the queue mutex is free, the front of a non-empty queue is
\* an invoker and every invoker in the queue has the front's index plus its
\* position.
C20_Addressing ==
  (Mutex = Free /\ InvokerQueue # <<>>) =>
     /\ InvokerQueue[1] # Null
     /\ \A p \in 1..Len(InvokerQueue) : Addressed(InvokerQueue, p)

\* Thread th is about to index the queue in TryInvoke for the future f:
\* the status reads ENQUEUED (line 305) and the queue is not empty (line 313).
Indexes(th, f) ==
  /\ AtPc(th, "Wait") /\ Top(th).t = f
  /\ status[f] = "ENQUEUED"
  /\ stateMutex[f] = Free /\ Mutex = Free
  /\ InvokerQueue # <<>>

\* C21: whenever TryInvoke indexes the queue, the offset is inside the queue
\* and the slot holds the invoker of the future asked for.
C21_SlotOfTarget ==
  \A th \in AllThreads, f \in Tasks :
     (Indexes(th, f) /\ ~crashed) =>
        /\ TryInvokeSlot(f, InvokerQueue) \in 1..Len(InvokerQueue)
        /\ InvokerQueue[TryInvokeSlot(f, InvokerQueue)] = f

\* The k-th dependent of prior p has not been signaled yet: p is not DONE, or
\* the loop of lines 235-269 over p's dependents has not passed position k.
Pending(p, k) ==
  \/ status[p] # "DONE"
  \/ \E th \in AllThreads : \E j \in 1..Len(stack[th]) :
        stack[th][j].pc = "SignalLoop" /\ stack[th][j].t = p /\ stack[th][j].i <= k

\* The entries of the dependents lists, as <<prior, position>>.
Registrations(t) ==
  UNION { { <<p, k>> : k \in { x \in 1..Len(dependents[p]) : dependents[p][x] = t } } : p \in Tasks }

\* Number of registrations of t that have not been signaled.
PendingCount(t) == Cardinality({ r \in Registrations(t) : Pending(r[1], r[2]) })

\* Steps of PushDependent on task t by thread th.
Registers(th, t) == AtPc(th, "Register") /\ Top(th).t = t /\ stack'[th] # stack[th]
Finalizes(th, t) == AtPc(th, "Finalize") /\ Top(th).t = t /\ stack'[th] # stack[th]

\* Priors of t (by position) that are not DONE.
NotDonePriors(t) == { i \in 1..Len(priors[t]) : status[priors[t][i]] # "DONE" }

\* The state left by a Push of t.
LikePush(t) ==
  /\ status'[t] = "ENQUEUED"
  /\ InvokerQueue' = Append(InvokerQueue, t)
  /\ invokerIndex'[t] = PushIndex(InvokerQueue)
  /\ t \notin InvokersOnHold'

InitDependentAndTwo ==
  /\ InitQueue
  /\ InitPool(MaxThreads)
  /\ numTasks = MaxTasks + 1
  /\ priors = [t \in Tasks |-> IF t = 2 THEN <<1>> ELSE <<>>]
  /\ waitsOn = [t \in Tasks |-> Null]
  /\ waitsLeft = MaxWaits
  /\ resizesLeft = 0
  /\ throws = {}

SpecDependentAndTwo == InitDependentAndTwo /\ [][Next]_vars /\ Fairness

\* C23: a task that is ON_HOLD with all its priors DONE eventually leaves
\* ON_HOLD, whatever the interleaving of its registration with the
\* completion and signaling of its priors.
C23_NoLostSignal ==
  \A t \in Tasks : (status[t] = "ON_HOLD" /\ PriorsDone(t)) ~> (status[t] # "ON_HOLD")

\* Thread th reinserts its collected invokers in this step.
Reinserts(th) == AtPc(th, "Reinsert") /\ stack'[th] # stack[th]

\* C24: the k collected invokers go to the front of the queue ahead of every
\* entry already there, each ENQUEUED, with indices that end just below the
\* previous front's index (0..k-1 when the queue was empty), and k sleeping
\* workers, or all of them if fewer sleep, are woken.
C24_BatchReinsertion ==
  [][\A th \in AllThreads :
       Reinserts(th) =>
          LET launch == Top(th).launch
              k == Len(launch)
              q == InvokerQueue
              base == IF q = <<>> THEN k ELSE invokerIndex[Head(q)]
          IN /\ k >= 1
             /\ Len(InvokerQueue') = Len(q) + k
             /\ \A j \in 1..k :
                   /\ InvokerQueue'[j] = launch[k + 1 - j]
                   /\ status'[launch[j]] = "ENQUEUED"
                   /\ invokerIndex'[InvokerQueue'[j]] = base - k + j - 1
             /\ \A j \in 1..Len(q) : InvokerQueue'[k + j] = q[j]
             /\ sleeping' \subseteq sleeping
             /\ Cardinality(sleeping') = Cardinality(sleeping) - Min(k, Cardinality(sleeping))]_vars

C24_Witness ==
  \E d, e \in Tasks, w \in ThreadIds :
     /\ d # e
     /\ InvokerQueue = <<e, d>>
     /\ {d, e} \subseteq pastDue
     /\ status[d] = "ENQUEUED" /\ status[e] = "ENQUEUED"
     /\ invokerIndex[e] = 0 /\ invokerIndex[d] = 1
     /\ AtPc(w, "CvBlocked") /\ w \notin sleeping

\* C25: a future that Wait found ON_HOLD and marked high priority never
\* enters the queue, and when its payload runs it runs inline on the thread
\* that signaled its last prior.
C25_MarkedRunsInline ==
  \A f \in Tasks :
     isHighPriority[f] =>
        /\ ~InQueue(f)
        /\ status[f] # "ENQUEUED"
        /\ \A th \in AllThreads : Runs(th, f) => RunsInline(th, f)

\* Thread th, inside Wait on f, reads f ENQUEUED and calls TryInvoke in this step.
TriesInvoke(th, f) ==
  /\ AtPc(th, "Wait") /\ Top(th).t = f
  /\ status[f] = "ENQUEUED"
  /\ \A o \in AllThreads \ {th} : stack'[o] = stack[o]
  /\ stack'[th] # stack[th] \/ (crashed' /\ ~crashed)

\* C26: a Wait that finds f ENQUEUED and still in the queue removes f's
\* invoker, and no other, and runs it on the calling thread; when f has
\* already been claimed the attempt runs nothing and leaves the queue as it is.
C26_ClaimSpecific ==
  [][\A th \in AllThreads, f \in Tasks :
       TriesInvoke(th, f) =>
          IF InQueue(f)
            THEN /\ ~InQueue(f)'
                 /\ \A u \in Tasks \ {f} : InQueue(u)' = InQueue(u)
                 /\ AtPc(th, "Payload")' /\ Top(th)'.t = f
                 /\ status'[f] = "RUNNING"
            ELSE /\ UNCHANGED <<InvokerQueue, status, started, crashed>>]_vars

\* C27: whenever the queue mutex is free the queue is empty or its front is
\* an invoker, not a tombstone; a removal from the front leaves the queue
\* that follows the removed entry without its leading tombstones, and a
\* claim of a slot behind the front leaves the front and the length as
\* they are.
C27_FrontLive ==
  /\ []((Mutex = Free /\ InvokerQueue # <<>>) => Head(InvokerQueue) # Null)
  /\ [][\A th \in AllThreads, f \in Tasks :
          /\ (TriesInvoke(th, f) /\ InvokerQueue # <<>> /\ TryInvokeSlot(f, InvokerQueue) \in 2..Len(InvokerQueue)) =>
                /\ Len(InvokerQueue') = Len(InvokerQueue)
                /\ Head(InvokerQueue') = Head(InvokerQueue)
          /\ ((TriesInvoke(th, f) /\ InvokerQueue # <<>> /\ TryInvokeSlot(f, InvokerQueue) = 1) \/ WorkerPops(th, f)) =>
                \/ InvokerQueue' = <<>>
                \/ /\ Head(InvokerQueue') # Null
                   /\ \E n \in 1..Len(InvokerQueue) :
                         /\ InvokerQueue' = SubSeq(InvokerQueue, n + 1, Len(InvokerQueue))
                         /\ \A j \in 2..n : InvokerQueue[j] = Null]_vars

\* C27 witness: a Wait claim has left a tombstone between two queued
\* invokers and runs the claimed payload; the front is an invoker.
C27_Witness ==
  \E b \in Tasks :
     /\ Len(InvokerQueue) = 3
     /\ InvokerQueue[1] # Null /\ InvokerQueue[2] = Null /\ InvokerQueue[3] # Null
     /\ Runs(Main, b) /\ InWait(Main, b)
     /\ Mutex = Free

\* A write of NumberOfThreads or Destroying whose wakeup (line 125 or 187)
\* has not been issued yet.
WakeupDue == \E th \in AllThreads : AtPc(th, "ShrinkNotify") \/ AtPc(th, "DestroyNotify")

\* Thread w, in Pop and holding or about to take the queue mutex, decides
\* in this step between waiting, leaving and taking an invoker.
Decides(w) ==
  /\ AtPc(w, "Pop") \/ (AtPc(w, "CvBlocked") /\ w \notin sleeping)
  /\ stack'[w] # stack[w]

\* C28: a worker is blocked in the wait of line 61 only while its index is
\* below NumberOfThreads and the queue is not being destroyed (a wakeup that
\* is about to be issued apart); a worker that decides goes to wait exactly
\* when its index is below NumberOfThreads, the queue is not being
\* destroyed and the queue is empty, and leaves its loop only when its
\* index is not below NumberOfThreads or the queue is being destroyed.
C28_IdleAndExit ==
  /\ [](\A w \in sleeping : ~WakeupDue => (threadIndex[w] < NumberOfThreads /\ ~Destroying))
  /\ [][\A w \in ThreadIds :
          Decides(w) =>
             /\ AtPc(w, "CvWait")' <=> (threadIndex[w] < NumberOfThreads /\ ~Destroying /\ InvokerQueue = <<>>)
             /\ AtPc(w, "Exit")' => (threadIndex[w] >= NumberOfThreads \/ Destroying)]_vars

\* No SetNumberOfThreads body runs and the queue is not being destroyed.
Settled == ~InResize /\ ~Destroying

\* Thread th, growing the pool, spawns thread u in this step.
Spawns(th, u) == AtPc(th, "Grow") /\ stack[u] = <<>> /\ stack'[u] # <<>>

\* C29: growth spawns one worker per missing slot, with the indices from the
\* former size up to n - 1, each registered in ThreadIdToIndex, and none
\* when n is reached; whenever the pool is settled the indices of the live
\* workers are pairwise distinct and are exactly 0..NumberOfThreads-1.
C29_IndicesOfLiveWorkers ==
  /\ [](Settled =>
          /\ { threadIndex[w] : w \in Live } = 0..(NumberOfThreads - 1)
          /\ \A w, z \in Live : threadIndex[w] = threadIndex[z] => w = z
          /\ Live \subseteq ThreadIdToIndex)
  /\ [][\A th \in AllThreads :
          /\ \A u \in ThreadIds :
                Spawns(th, u) =>
                   /\ Len(Threads) < Top(th).i
                   /\ threadIndex'[u] = Len(Threads)
                   /\ Threads' = Append(Threads, u)
                   /\ u \in ThreadIdToIndex'
                   /\ \A z \in ThreadIds \ {u} : threadIndex'[z] = threadIndex[z] /\ (stack[z] = <<>> <=> stack'[z] = <<>>)
          /\ (AtPc(th, "Grow") /\ AtPc(th, "ResizeReturn")') =>
                /\ Len(Threads) = Top(th).i
                /\ { threadIndex[Threads[k]] : k \in 1..Len(Threads) } = 0..(Top(th).i - 1)]_vars

\* C29 witness: after a self-shrink by the worker of index 1 and a growth
\* back to two threads the pool is settled with that worker at index 0.
C29_Witness ==
  /\ Settled
  /\ Threads = <<2, 1>>
  /\ threadIndex[2] = 0 /\ threadIndex[1] = 1
  /\ Live = {1, 2}
  /\ NumberOfThreads = 2
  /\ ThreadIdToIndex = {1, 2}

\* ------------------------------------- reinsertion, lock by lock
\* Lines 272-278: the queue mutex is taken and the first index computed
\* (front() of a non-empty queue is dereferenced).
ReinsertLock(th) ==
  /\ AtPc(th, "Reinsert")
  /\ Mutex = Free
  /\ IF InvokerQueue # <<>> /\ Head(InvokerQueue) = Null
       THEN /\ crashed' = TRUE
            /\ UNCHANGED <<Mutex, stack>>
       ELSE /\ Mutex' = th
            /\ stack' = SetTop(th, [Top(th) EXCEPT !.pc = "ReinsertNext", !.i = 1,
                                                   !.index = ReinsertStart(InvokerQueue, Top(th).launch)])
            /\ UNCHANGED crashed
  /\ UNCHANGED <<status, remaining, dependents, invokerIndex, isHighPriority, InvokerQueue, InvokersOnHold, stateMutex, sleeping>>
  /\ UNCHANGED <<planVars, poolVars, histVars>>

\* Lines 279-284, one invoker: it gets --index and its state mutex is taken.
ReinsertTake(th) ==
  /\ AtPc(th, "ReinsertNext")
  /\ Top(th).i <= Len(Top(th).launch)
  /\ LET d == Top(th).launch[Top(th).i]
     IN /\ stateMutex[d] = Free
        /\ stateMutex' = [stateMutex EXCEPT ![d] = th]
        /\ invokerIndex' = [invokerIndex EXCEPT ![d] = Top(th).index - 1]
        /\ stack' = SetTop(th, [Top(th) EXCEPT !.pc = "ReinsertPut", !.index = @ - 1])
  /\ UNCHANGED <<status, remaining, dependents, isHighPriority, InvokerQueue, InvokersOnHold, Mutex, sleeping>>
  /\ UNCHANGED <<planVars, poolVars, histVars, crashed>>

\* Lines 285-290, the same invoker: ENQUEUED, emplace_front, and its state
\* mutex released at the end of the iteration.
ReinsertPut(th) ==
  /\ AtPc(th, "ReinsertPut")
  /\ LET d == Top(th).launch[Top(th).i]
     IN /\ status' = [status EXCEPT ![d] = "ENQUEUED"]
        /\ InvokerQueue' = <<d>> \o InvokerQueue
        /\ stateMutex' = [stateMutex EXCEPT ![d] = Free]
        /\ stack' = SetTop(th, [Top(th) EXCEPT !.pc = "ReinsertNext", !.i = @ + 1])
  /\ UNCHANGED <<remaining, dependents, invokerIndex, isHighPriority, InvokersOnHold, Mutex, sleeping>>
  /\ UNCHANGED <<planVars, poolVars, histVars, crashed>>

\* Lines 291-295: the queue mutex is released and notify_one is called once
\* per invoker.
ReinsertUnlock(th) ==
  /\ AtPc(th, "ReinsertNext")
  /\ Top(th).i > Len(Top(th).launch)
  /\ Mutex' = Free
  /\ sleeping' \in NotifyOne(Len(Top(th).launch))
  /\ stack' = Return(th)
  /\ UNCHANGED <<status, remaining, dependents, invokerIndex, isHighPriority, InvokerQueue, InvokersOnHold, stateMutex>>
  /\ UNCHANGED <<planVars, poolVars, histVars, crashed>>

NextLocks ==
  \/ \E w \in ThreadIds : WorkerPop(w)
  \/ \E w \in ThreadIds : WorkerCvWait(w)
  \/ \E w \in ThreadIds : WorkerInvoke(w)
  \/ \E th \in AllThreads : RunPayload(th)
  \/ \E th \in AllThreads : SignalDependent(th)
  \/ \E th \in AllThreads : ReinsertLock(th)
  \/ \E th \in AllThreads : ReinsertTake(th)
  \/ \E th \in AllThreads : ReinsertPut(th)
  \/ \E th \in AllThreads : ReinsertUnlock(th)
  \/ \E th \in AllThreads : WaitStep(th)
  \/ \E th \in AllThreads : WaitReturn(th)
  \/ SubmitPush
  \/ SubmitDependent
  \/ \E th \in AllThreads : Register(th)
  \/ \E th \in AllThreads : Finalize(th)
  \/ \E f \in Tasks : MainWait(f)

SpecLocks == Init /\ [][NextLocks]_vars

\* C30: no thread takes the mutex of a shared state while it holds the queue
\* mutex.
C30_StateLockAfterQueueLock ==
  [][\A th \in AllThreads, t \in Tasks :
       (stateMutex[t] # th /\ stateMutex'[t] = th) => (Mutex # th /\ Mutex' # th)]_vars

\* Inside the part of a SetNumberOfThreads body that runs under destroyLock.
Locked(th) == \E k \in 1..Len(stack[th]) : stack[th][k].pc \in ResizePcs \ {"ResizeLock"}
InBody(th) == \E k \in 1..Len(stack[th]) : stack[th][k].pc \in ResizePcs

QueueSlots(t) == { k \in 1..Len(InvokerQueue) : InvokerQueue[k] = t }
FramesOf(th, t) ==
  { k \in 1..Len(stack[th]) :
      /\ stack[th][k].pc \in {"Invoke", "Payload", "PayloadEnd", "SignalLoop", "Reinsert"}
      /\ \/ stack[th][k].t = t
         \/ \E j \in 1..Len(stack[th][k].launch) : stack[th][k].launch[j] = t }
HoldingFrames(t) == UNION { { <<th, k>> : k \in FramesOf(th, t) } : th \in AllThreads }
HoldCount(t) ==
  Cardinality(QueueSlots(t)) + (IF t \in InvokersOnHold THEN 1 ELSE 0) + Cardinality(HoldingFrames(t))

\* C32: every invoker is held by at most one of a queue slot, an on-hold
\* entry and a thread's local frame; a task that is ON_HOLD is not in the
\* queue, and a task in the on-hold store is not ENQUEUED, RUNNING or DONE.
C32_ExclusiveOwner ==
  \A t \in Tasks :
    /\ HoldCount(t) <= 1
    /\ status[t] = "ON_HOLD" => QueueSlots(t) = {}
    /\ t \in InvokersOnHold => status[t] \notin {"ENQUEUED", "RUNNING", "DONE"}

\* One invoker collected for reinsertion while another worker has moved an
\* invoker out of the queue.
C32_Witness ==
  /\ \E th \in AllThreads : AtPc(th, "Reinsert") /\ Top(th).launch # <<>>
  /\ \E w \in ThreadIds, t \in Tasks : Holds(w, t)

\* ------------------------------------------------ the pool, scheduled
\* Every thread that can take its next step eventually takes it; what the
\* client does next (push, resize, destroy) is its own choice, and a payload
\* eventually ends.
PoolRuns(th) ==
  \/ th \in ThreadIds /\ (WorkerDecide(th) \/ WorkerTake(th) \/ WorkerCvWait(th) \/ WorkerInvoke(th) \/ WorkerExit(th))
  \/ RunPayload(th)
  \/ SignalDependent(th)
  \/ ResizeLock(th)
  \/ Grow(th)
  \/ ShrinkLookup(th)
  \/ ShrinkSet(th)
  \/ ShrinkNotify(th)
  \/ Join(th)
  \/ ResizeReturn(th)
  \/ DestroyLock(th)
  \/ DestroyNotify(th)
  \/ DestroyJoin(th)

PoolFairness == \A th \in AllThreads : WF_vars(PoolRuns(th))

SpecPoolLive == InitResize /\ [][NextPool]_vars /\ PoolFairness

\* The destructor has set Destroying and called notify_all (lines 121-125).
Woken == AtPc(Main, "DestroyJoin")

\* C33: once the destructor has set Destroying under the queue mutex and
\* woken the workers, no worker is blocked in wait, every worker leaves its
\* loop and the destructor's join returns.
C33_DestructionTerminates ==
  /\ [](Woken => sleeping = {})
  /\ \A w \in ThreadIds : Woken ~> (stack[w] = <<>>)
  /\ Woken ~> Destroyed

\* The destructor has returned after waking a worker that was blocked in
\* wait with tasks still to run.
C33_Witness ==
  /\ Destroyed
  /\ \E t \in Tasks : status[t] = "DONE"
  /\ \A w \in ThreadIds : stack[w] = <<>>

\* C34: after a shrink has lowered NumberOfThreads and called notify_all
\* (lines 186-187), every worker whose index is out of bounds ends and the
\* join of line 188 returns: the body is left.
C34_ShrinkTerminates ==
  \A th \in AllThreads :
    AtPc(th, "Join") ~> (~InBody(th) /\ \A w \in ThreadIds : stack[w] # <<>> => threadIndex[w] < NumberOfThreads)

\* ------------------------------------------------ resizing down to zero
\* The pool of SpecPool, with SetNumberOfThreads(0) among the calls.
NextZero ==
  \/ NextPool
  \/ \E th \in AllThreads : CallResize(th, 0)

SpecZero == InitResize /\ [][NextZero]_vars

\* The thread Sync is about to join (line 200) is the calling thread.
JoinsItself(th) ==
  /\ AtPc(th, "Join")
  /\ Top(th).index <= Len(Threads)
  /\ Threads[Top(th).index] = th

\* C35: a shrink executed on a worker thread never joins the calling thread,
\* for every target from 0 up to the current size and every caller index.
C35_NeverJoinsItself == \A th \in ThreadIds : ~JoinsItself(th)

\* The thread is inside a payload (line 218).
InPayload(th) == AtPc(th, "Payload") \/ AtPc(th, "PayloadEnd")

\* C36: a thread that executes a payload holds neither the queue mutex nor
\* the mutex of any shared state; a dependent invoked inline by the signaling
\* thread runs after the finished prior's state mutex was released.
C36_PayloadWithoutLocks ==
  \A th \in AllThreads :
    InPayload(th) => (Mutex # th /\ \A t \in Tasks : stateMutex[t] # th)

\* ------------------------------------------- payloads that submit tasks
\* Task 1 has no prior and task 2 depends on it; the main thread submits both
\* and may call Wait.  The last task is submitted with PushDependent by a
\* payload, on futures of tasks 1 and 2.
Spawned == MaxTasks + 1

InitSpawn ==
  /\ InitQueue
  /\ \E n \in 1..MaxThreads : InitPool(n)
  /\ numTasks = 2
  /\ \E q \in { r \in SeqsUpTo(1..2, MaxPriors) : r # <<>> /\ Nondecreasing(r) } :
       priors = [t \in Tasks |-> IF t = 2 THEN <<1>> ELSE IF t = Spawned THEN q ELSE <<>>]
  /\ waitsOn = [t \in Tasks |-> Null]
  /\ waitsLeft = MaxWaits
  /\ resizesLeft = 0
  /\ throws = {}

\* A payload calls PushDependent on futures it was given: the shared state is
\* constructed, the registrations follow on the same thread.
PayloadSubmit(th) ==
  /\ AtPc(th, "Payload")
  /\ status[Spawned] = "NONE"
  /\ \A i \in 1..Len(priors[Spawned]) : status[priors[Spawned][i]] \notin {"NONE", "CONSTRUCTING"}
  /\ status' = [status EXCEPT ![Spawned] = "CONSTRUCTING"]
  /\ stack' = Call(th, Top(th), [Frame("Register", Spawned) EXCEPT !.i = 1])
  /\ UNCHANGED <<remaining, dependents, invokerIndex, isHighPriority, InvokerQueue, InvokersOnHold, Mutex, stateMutex, sleeping>>
  /\ UNCHANGED <<planVars, poolVars, histVars, crashed>>

NextSpawn ==
  \/ Next
  \/ \E th \in AllThreads : PayloadSubmit(th)

SpecSpawn == InitSpawn /\ [][NextSpawn]_vars

\* The state mutexes a thread has to acquire for its next step: the prior's
\* in a registration, the new state's at the end of PushDependent, the
\* dependent's in the signaling loop (line 243), the invoker's before Invoke
\* (line 79) and at the start of its signaling (line 234), the future's in
\* TryInvoke (line 301), the collected invokers' in reinsertion (line 284).
NeedsState(th) ==
  IF crashed \/ stack[th] = <<>> THEN {}
  ELSE LET f == Top(th)
       IN CASE f.pc = "Register" -> { priors[f.t][f.i] }
            [] f.pc = "Finalize" -> { f.t }
            [] f.pc = "SignalLoop" -> IF f.i <= Len(dependents[f.t]) THEN { dependents[f.t][f.i] } ELSE {}
            [] f.pc = "Invoke" -> { f.t }
            [] f.pc = "PayloadEnd" -> { f.t }
            [] f.pc = "Wait" -> IF status[f.t] = "ENQUEUED" THEN { f.t } ELSE {}
            [] f.pc = "Reinsert" -> { f.launch[k] : k \in 1..Len(f.launch) }
            [] OTHER -> {}

\* The thread has to acquire the queue mutex for its next step (lines 57,
\* 272, 311, and Push).
NeedsQueue(th) ==
  /\ ~crashed
  /\ stack[th] # <<>>
  /\ \/ Top(th).pc \in {"Pop", "Reinsert"}
     \/ Top(th).pc = "CvBlocked" /\ th \notin sleeping
     \/ Top(th).pc = "Wait" /\ status[Top(th).t] = "ENQUEUED"
     \/ Top(th).pc = "Finalize" /\ remaining[Top(th).t] = 0

\* Thread a cannot step before thread b releases a mutex.
BlockedOn(a, b) ==
  \/ \E t \in NeedsState(a) : stateMutex[t] = b
  \/ NeedsQueue(a) /\ Mutex = b

BlockedOnAny(S) == { b \in AllThreads : \E a \in S : BlockedOn(a, b) }

RECURSIVE Closure(_, _)
Closure(S, n) == IF n = 0 THEN S ELSE Closure(S \cup BlockedOnAny(S), n - 1)

LockCycle(a) == a \in Closure(BlockedOnAny({a}), Cardinality(AllThreads))

\* C37: in no reachable state is there a cycle of threads, each holding a
\* mutex and blocked acquiring one held by the next.
C37_NoLockCycle == \A a \in AllThreads : ~LockCycle(a)

\* Lines 244-251: the thread decrements dependent d to zero, finds it ON_HOLD
\* and looks it up in InvokersOnHold.
LooksUp(th, d) ==
  /\ AtPc(th, "SignalLoop")
  /\ Top(th).i <= Len(dependents[Top(th).t])
  /\ d = dependents[Top(th).t][Top(th).i]
  /\ ReadyToLaunch(status, Decrement(remaining, d), d)
  /\ stack'[th] # stack[th] \/ (crashed' /\ ~crashed)

\* C38: whenever signaling brings a dependent's count to 0 and finds it
\* ON_HOLD, InvokersOnHold has an entry for it at the lookup.
C38_LookupNeverMisses ==
  [][\A th \in AllThreads, d \in Tasks :
       LooksUp(th, d) => (d \in InvokersOnHold /\ d \notin InvokersOnHold' /\ ~crashed')]_vars

\* A lookup has succeeded for a dependent of two priors, the first of which
\* signaled it while its PushDependent was still registering it.
C38_Witness ==
  \E d \in Tasks : removals[d] = 1 /\ zeroHits[d] = 2 /\ d \notin InvokersOnHold

\* The invokers a thread has collected in invokersToLaunch and not yet
\* reinserted.
Collected(th) ==
  { d \in Tasks : \E k \in 1..Len(stack[th]) :
      /\ stack[th][k].pc \in {"SignalLoop", "Reinsert"}
      /\ \E j \in 1..Len(stack[th][k].launch) : stack[th][k].launch[j] = d }

\* C39: the assertion of line 281 holds: an invoker collected for
\* reinsertion is ON_HOLD from its collection until the reinsertion gives it
\* its index, whatever other threads do meanwhile.
C39_CollectedOnHold ==
  /\ [](\A th \in AllThreads : \A d \in Collected(th) : status[d] = "ON_HOLD")
  /\ [][\A th \in AllThreads : Reinserts(th) => \A d \in Collected(th) : status[d] = "ON_HOLD"]_vars

\* A collected invoker on which Wait was called before its reinsertion.
C39_Witness ==
  \E th \in AllThreads : AtPc(th, "Reinsert") /\ \E d \in Collected(th) : isHighPriority[d] /\ InWait(Main, d)

\* The worker has left its loop and is at the erase of lines 45-46.
Erasing(w) == AtPc(w, "Exit")

\* The body inserts into ThreadIdToIndex (line 157) or looks up in it
\* (lines 171-174).
Inserts(th) == \E u \in ThreadIds : Spawns(th, u)
LooksUpIdentity(th) == ResizeStep(th, "ShrinkLookup")

\* C40: ThreadIdToIndex is accessed by one thread at a time: no insertion or
\* lookup happens while a worker is at its erase; while no resize runs it
\* holds exactly the live workers; and every lookup of the calling thread's
\* and of worker 0's identity finds an entry.
C40_IdentityMap ==
  /\ [][\A th \in AllThreads : (Inserts(th) \/ LooksUpIdentity(th)) => \A w \in ThreadIds : ~Erasing(w)]_vars
  /\ [](Settled => ThreadIdToIndex = Live)
  /\ [][\A th \in AllThreads : LooksUpIdentity(th) =>
          /\ th \in ThreadIdToIndex
          /\ Threads # <<>> /\ Threads[1] \in ThreadIdToIndex]_vars

====
